---- MODULE Spec2Model ----
(***************************************************************************)
(* ServiceTransactionChecker (miner/src/service_transaction_checker.rs).   *)
(*                                                                         *)
(* The checker is a unit struct: it owns no field.  An invocation of       *)
(* check or check_address is modelled as a frame (its arguments, its       *)
(* locals, its position) that advances by one chain query per step; the    *)
(* queries it issues are recorded, with what they returned, in the         *)
(* frame's trace.  The client (RegistryInfo + CallContract) is the chain:  *)
(* a registry, the storage of the two policy contracts and the fault, if   *)
(* any, the node currently shows on one contract function.                 *)
(*                                                                         *)
(* An invocation ends at the first failure it meets, so it observes at     *)
(* most one: the chain carries one fault at a time.  A registry name may   *)
(* be absent or point to either contract; a contract asked for a function  *)
(* it does not have returns no bytes.  New blocks arrive between           *)
(* invocations: each invocation runs on one snapshot of the chain.         *)
(* last and memo are history variables; no step of the checker reads them. *)
(***************************************************************************)
EXTENDS Integers, Sequences, FiniteSets, TLC

----------------------------------------------------------------------------
(* Bounds of the model *)

\* accounts are the addresses 0..MaxAddr
MaxAddr == 1
\* gas prices are zero and MaxGasPrice
MaxGasPrice == 1
\* the 32-byte word a call returns is one of 0..MaxWord
MaxWord == 2

----------------------------------------------------------------------------
(* Addresses, names, blocks *)

\* Address::default()
ZeroAddress == 0

Address == 0..MaxAddr

\* a signed transaction's sender is recovered from its signature: never zero
Senders == Address \ {ZeroAddress}

\* the addresses at which the two policy contracts are deployed
CertifierContract == MaxAddr + 1
WhitelistContract == MaxAddr + 2
ContractAddress == {CertifierContract, WhitelistContract}

SERVICE_TRANSACTION_CONTRACT_REGISTRY_NAME == "service_transaction_checker"
SERVICE_CERTIFIED_WHITESLIT_CONTRACT_REGISTRY_NAME == "service_destination_whitelist"

RegistryNames ==
    {SERVICE_TRANSACTION_CONTRACT_REGISTRY_NAME,
     SERVICE_CERTIFIED_WHITESLIT_CONTRACT_REGISTRY_NAME}

\* BlockId::Latest, and a historical block (the genesis) the checker never asks for
Latest == "Latest"
Earliest == "Earliest"

----------------------------------------------------------------------------
(* Option<Address>, Result<bool, String>, Result<Bytes, String> *)

None == <<>>
Some(a) == <<a>>

Ok(b) == [ok |-> TRUE, val |-> b, err |-> ""]
Err(e) == [ok |-> FALSE, val |-> FALSE, err |-> e]

OkBytes(bytes) == [ok |-> TRUE, val |-> bytes, err |-> ""]
ErrBytes(e) == [ok |-> FALSE, val |-> <<>>, err |-> e]

\* the error strings
NOT_CONFIGURED == "contract is not configured"
WHITELIST_NOT_CONFIGURED == "whitelist contract is not configured"
INVALID_DATA == "Invalid data"
CALL_FAILED == "call failed"

----------------------------------------------------------------------------
(* ABI: the encoded calls and the decoder of a bool *)

\* service_transaction::functions::certified::call(sender)
certified_call(sender) == [fn |-> "certified", args |-> <<sender>>]
\* service_destination_whitelist::functions::activated::call()
activated_call == [fn |-> "activated", args |-> <<>>]
\* service_destination_whitelist::functions::whitelisted::call(to)
whitelisted_call(to) == [fn |-> "whitelisted", args |-> <<to>>]

Functions == {"certified", "activated", "whitelisted"}

\* the bytes a call can return: nothing, or one word
Bytes == {<<>>} \cup {<<w>> : w \in 0..MaxWord}
\* the bytes that do not decode to a bool
BadBytes == {b \in Bytes : b = <<>> \/ b[1] > 1}

\* decoder.decode(&value).map_err(|e| e.to_string())
decode(value) ==
    IF Len(value) = 1 /\ value[1] \in {0, 1}
    THEN Ok(value[1] = 1)
    ELSE Err(INVALID_DATA)

----------------------------------------------------------------------------
(* The client: registry and contract calls against the chain *)

NoFault == [fn |-> "", fail |-> FALSE, out |-> <<>>]
Faults ==
    {NoFault} \cup
    [fn : Functions, fail : {TRUE}, out : {<<>>}] \cup
    [fn : Functions, fail : {FALSE}, out : BadBytes]

Chains ==
    [registry : [RegistryNames -> {None} \cup {Some(a) : a \in ContractAddress}],
     certified : SUBSET Senders,
     activated : BOOLEAN,
     whitelisted : SUBSET Address,
     fault : Faults]

BoolWord(b) == IF b THEN <<1>> ELSE <<0>>

\* what the contract deployed at address returns for the encoded call
Execute(c, address, data) ==
    IF address = CertifierContract /\ data.fn = "certified"
    THEN BoolWord(data.args[1] \in c.certified)
    ELSE IF address = WhitelistContract /\ data.fn = "activated"
    THEN BoolWord(c.activated)
    ELSE IF address = WhitelistContract /\ data.fn = "whitelisted"
    THEN BoolWord(data.args[1] \in c.whitelisted)
    ELSE <<>>

\* RegistryInfo::registry_address(name, block)
registry_address(c, name, block) ==
    IF block = Latest THEN c.registry[name] ELSE None

\* CallContract::call_contract(block, address, data)
call_contract(c, block, address, data) ==
    IF block # Latest THEN OkBytes(<<>>)
    ELSE IF c.fault.fn = data.fn /\ c.fault.fail THEN ErrBytes(CALL_FAILED)
    ELSE IF c.fault.fn = data.fn THEN OkBytes(c.fault.out)
    ELSE OkBytes(Execute(c, address, data))

----------------------------------------------------------------------------
(* State *)

VARIABLES
    chain,   \* the client's view of the latest block
    frame,   \* the invocation of check or check_address in progress, if any
    last,    \* history: what the last invocation resolved, and whether the chain moved since
    memo,    \* history: an earlier invocation on this snapshot, with its result
    peer     \* the invocation another caller has in progress at the same time, if any

vars == <<chain, frame, last, memo, peer>>

\* tx.gas_price.is_zero() is all check reads of it: zero, and a price that is not
GasPrices == {0, MaxGasPrice}

Actions ==
    {[kind |-> "Create", address |-> ZeroAddress]} \cup
    [kind : {"Call"}, address : Address]

\* SignedTransaction: what check reads of it
Transactions == [sender : Senders, gas_price : GasPrices, action : Actions]

NoTx ==
    [sender |-> ZeroAddress, gas_price |-> 0,
     action |-> [kind |-> "", address |-> ZeroAddress]]

NoAddress == 0 - 1
NoData == [fn |-> "", args |-> <<>>]

\* a query issued to the client, as recorded in the frame's trace
RegistryQuery(name, block, found) ==
    [op |-> "registry_address", block |-> block, name |-> name,
     address |-> NoAddress, data |-> NoData,
     found |-> found, ret |-> OkBytes(<<>>)]

CallQuery(block, address, data, ret) ==
    [op |-> "call_contract", block |-> block, name |-> "",
     address |-> address, data |-> data,
     found |-> None, ret |-> ret]

\* no invocation in progress: the checker itself holds nothing
IdleFrame ==
    [pc |-> "idle", entry |-> "", tx |-> NoTx,
     sender |-> ZeroAddress, to |-> ZeroAddress,
     contract_address |-> NoAddress,
     result |-> Ok(FALSE), trace |-> <<>>]

\* nothing returned yet
NoLast == [valid |-> FALSE, changed |-> FALSE, contract_address |-> None]

NoMemo ==
    [valid |-> FALSE, entry |-> "", tx |-> NoTx,
     sender |-> ZeroAddress, to |-> ZeroAddress, result |-> Ok(FALSE)]

----------------------------------------------------------------------------
(* check_address: what it does with the results of its two sub-checks *)

return(f, r) == [f EXCEPT !.pc = "done", !.result = r]

\* as check_address_certified, the certifier's error swallowed into a refusal
check_address_certified_lenient(f, certified) ==
    IF ~certified.ok THEN return(f, Ok(FALSE))
    ELSE IF ~certified.val THEN return(f, Ok(FALSE))
    ELSE [f EXCEPT !.pc = "whitelist_registry"]

\* as check_address_certified, the whitelist consulted only until a first
\* invocation has returned
check_address_certified_once(f, certified) ==
    IF ~certified.ok THEN return(f, Err(certified.err))
    ELSE IF ~certified.val THEN return(f, Ok(FALSE))
    ELSE IF memo.valid THEN return(f, Ok(TRUE))
    ELSE [f EXCEPT !.pc = "whitelist_registry"]

\* as check_address_certified, without the early return of a sender not certified
check_address_certified_through(f, certified) ==
    IF ~certified.ok THEN return(f, Err(certified.err))
    ELSE [f EXCEPT !.pc = "whitelist_registry"]

\* let certified = self.check_certified_address(client, sender)?;
\* if !certified { return Result::Ok(false); }
check_address_certified(f, certified) ==
    IF ~certified.ok THEN return(f, Err(certified.err))
    ELSE IF ~certified.val THEN return(f, Ok(FALSE))
    ELSE [f EXCEPT !.pc = "whitelist_registry"]

unwrap_or(r, default) == IF r.ok THEN r.val ELSE default

\* as check_address_whitelist, a failing whitelist check counting as a refusal
check_address_whitelist_closed(f, whitelist) ==
    LET whitelist_allowed == unwrap_or(whitelist, FALSE)
    IN  return(f, Ok(whitelist_allowed))

\* let whitelist_allowed = self.check_whitelist_address(client, to).unwrap_or(true);
\* Result::Ok(whitelist_allowed)
check_address_whitelist(f, whitelist) ==
    LET whitelist_allowed == unwrap_or(whitelist, TRUE)
    IN  return(f, Ok(whitelist_allowed))

\* as check_whitelist_address_active, activated() asked again until it answers
check_whitelist_address_active_retry(f, is_whitelist_active) ==
    IF ~is_whitelist_active.ok
    THEN [f EXCEPT !.pc = "activated"]
    ELSE IF ~is_whitelist_active.val
    THEN check_address_whitelist(f, Ok(FALSE))
    ELSE [f EXCEPT !.pc = "whitelisted"]

\* as check_whitelist_address_active, the test of the flag inverted
check_whitelist_address_active_inverted(f, is_whitelist_active) ==
    IF ~is_whitelist_active.ok
    THEN check_address_whitelist(f, Err(is_whitelist_active.err))
    ELSE IF is_whitelist_active.val
    THEN check_address_whitelist(f, Ok(FALSE))
    ELSE [f EXCEPT !.pc = "whitelisted"]

\* check_whitelist_address on the result of check_whitelist_active:
\* let is_whitelist_active = self.check_whitelist_active(..)?;
\* if !is_whitelist_active { return Result::Ok(false); }
check_whitelist_address_active(f, is_whitelist_active) ==
    IF ~is_whitelist_active.ok
    THEN check_address_whitelist(f, Err(is_whitelist_active.err))
    ELSE IF ~is_whitelist_active.val
    THEN check_address_whitelist(f, Ok(FALSE))
    ELSE [f EXCEPT !.pc = "whitelisted"]

\* client.call_contract(BlockId::Latest, address, data)? then decoder.decode(&value)
call_and_decode(value) ==
    IF ~value.ok THEN Err(value.err) ELSE decode(value.val)

----------------------------------------------------------------------------
(* The steps of an invocation, one chain query each *)

\* as check_certified_address_registry, an absent entry taken as the default
\* address
check_certified_address_registry_default(f, c) ==
    LET found == registry_address(c, SERVICE_TRANSACTION_CONTRACT_REGISTRY_NAME, Latest)
        g == [f EXCEPT !.trace = Append(@,
                  RegistryQuery(SERVICE_TRANSACTION_CONTRACT_REGISTRY_NAME, Latest, found))]
    IN  IF found = None
        THEN [g EXCEPT !.contract_address = ZeroAddress, !.pc = "certified"]
        ELSE [g EXCEPT !.contract_address = found[1], !.pc = "certified"]

\* as check_certified_address_registry, the address resolved by the last
\* invocation used again when there is one
check_certified_address_registry_cached(f, c) ==
    IF last.valid /\ last.contract_address # None
    THEN [f EXCEPT !.contract_address = last.contract_address[1], !.pc = "certified"]
    ELSE LET found == registry_address(c, SERVICE_TRANSACTION_CONTRACT_REGISTRY_NAME, Latest)
             g == [f EXCEPT !.trace = Append(@,
                      RegistryQuery(SERVICE_TRANSACTION_CONTRACT_REGISTRY_NAME, Latest, found))]
         IN  IF found = None
             THEN check_address_certified(g, Err(NOT_CONFIGURED))
             ELSE [g EXCEPT !.contract_address = found[1], !.pc = "certified"]

\* check_certified_address: client.registry_address(..).ok_or_else(..)?
check_certified_address_registry(f, c) ==
    LET found == registry_address(c, SERVICE_TRANSACTION_CONTRACT_REGISTRY_NAME, Latest)
        g == [f EXCEPT !.trace = Append(@,
                  RegistryQuery(SERVICE_TRANSACTION_CONTRACT_REGISTRY_NAME, Latest, found))]
    IN  IF found = None
        THEN check_address_certified(g, Err(NOT_CONFIGURED))
        ELSE [g EXCEPT !.contract_address = found[1], !.pc = "certified"]

\* as check_certified_address_call, a failed invocation tried again
check_certified_address_call_retry(f, c) ==
    LET data == certified_call(f.sender)
        value == call_contract(c, Latest, f.contract_address, data)
        g == [f EXCEPT !.trace = Append(@,
                  CallQuery(Latest, f.contract_address, data, value))]
    IN  IF ~value.ok
        THEN g
        ELSE check_address_certified(g, call_and_decode(value))

\* as check_certified_address_call, asking about the destination
check_certified_address_call_to(f, c) ==
    LET data == certified_call(f.to)
        value == call_contract(c, Latest, f.contract_address, data)
        g == [f EXCEPT !.trace = Append(@,
                  CallQuery(Latest, f.contract_address, data, value))]
    IN  check_address_certified(g, call_and_decode(value))

\* check_certified_address: the call of certified(sender) and its decoding
check_certified_address_call(f, c) ==
    LET data == certified_call(f.sender)
        value == call_contract(c, Latest, f.contract_address, data)
        g == [f EXCEPT !.trace = Append(@,
                  CallQuery(Latest, f.contract_address, data, value))]
    IN  check_address_certified(g, call_and_decode(value))

\* as check_whitelist_address_registry, the name looked up at the first block
check_whitelist_address_registry_earliest(f, c) ==
    LET found == registry_address(c, SERVICE_CERTIFIED_WHITESLIT_CONTRACT_REGISTRY_NAME, Earliest)
        g == [f EXCEPT !.trace = Append(@,
                  RegistryQuery(SERVICE_CERTIFIED_WHITESLIT_CONTRACT_REGISTRY_NAME, Earliest, found))]
    IN  IF found = None
        THEN check_address_whitelist(g, Err(WHITELIST_NOT_CONFIGURED))
        ELSE [g EXCEPT !.contract_address = found[1], !.pc = "activated"]

\* check_whitelist_address: client.registry_address(..).ok_or_else(..)?
check_whitelist_address_registry(f, c) ==
    LET found == registry_address(c, SERVICE_CERTIFIED_WHITESLIT_CONTRACT_REGISTRY_NAME, Latest)
        g == [f EXCEPT !.trace = Append(@,
                  RegistryQuery(SERVICE_CERTIFIED_WHITESLIT_CONTRACT_REGISTRY_NAME, Latest, found))]
    IN  IF found = None
        THEN check_address_whitelist(g, Err(WHITELIST_NOT_CONFIGURED))
        ELSE [g EXCEPT !.contract_address = found[1], !.pc = "activated"]

\* as check_whitelist_active, the resolved address kept in a field of the
\* checker that all its callers write and read
check_whitelist_active_shared(f, c) ==
    LET other == IF f = frame THEN peer ELSE frame
        contract_address ==
            IF other.contract_address # NoAddress
            THEN other.contract_address
            ELSE f.contract_address
        data == activated_call
        value == call_contract(c, Latest, contract_address, data)
        g == [f EXCEPT !.trace = Append(@,
                  CallQuery(Latest, contract_address, data, value))]
    IN  check_whitelist_address_active(g, call_and_decode(value))

\* check_whitelist_active(client, contract_address)
check_whitelist_active(f, c) ==
    LET data == activated_call
        value == call_contract(c, Latest, f.contract_address, data)
        g == [f EXCEPT !.trace = Append(@,
                  CallQuery(Latest, f.contract_address, data, value))]
    IN  check_whitelist_address_active(g, call_and_decode(value))

\* as check_whitelist_address_presence, the whitelist name resolved again for
\* the call
check_whitelist_address_presence_resolved(f, c) ==
    LET found == registry_address(c, SERVICE_CERTIFIED_WHITESLIT_CONTRACT_REGISTRY_NAME, Latest)
        contract_address == IF found = None THEN f.contract_address ELSE found[1]
        data == whitelisted_call(f.to)
        value == call_contract(c, Latest, contract_address, data)
        g == [f EXCEPT !.trace = Append(Append(@,
                  RegistryQuery(SERVICE_CERTIFIED_WHITESLIT_CONTRACT_REGISTRY_NAME, Latest, found)),
                  CallQuery(Latest, contract_address, data, value))]
    IN  check_address_whitelist(g, call_and_decode(value))

\* as check_whitelist_address_presence, the decoded boolean dropped
check_whitelist_address_presence_ignored(f, c) ==
    LET data == whitelisted_call(f.to)
        value == call_contract(c, Latest, f.contract_address, data)
        g == [f EXCEPT !.trace = Append(@,
                  CallQuery(Latest, f.contract_address, data, value))]
    IN  check_address_whitelist(g, Ok(TRUE))

\* check_whitelist_address_presence(client, contract_address, to)
check_whitelist_address_presence(f, c) ==
    LET data == whitelisted_call(f.to)
        value == call_contract(c, Latest, f.contract_address, data)
        g == [f EXCEPT !.trace = Append(@,
                  CallQuery(Latest, f.contract_address, data, value))]
    IN  check_address_whitelist(g, call_and_decode(value))

\* check_address(client, sender, to): enters check_certified_address
check_address(f, sender, to) ==
    [f EXCEPT !.sender = sender, !.to = to, !.pc = "certifier_registry"]

\* as check, without the test of the gas price
check_any_price(f, tx) ==
    LET sender == tx.sender
        g == [f EXCEPT !.entry = "check", !.tx = tx, !.sender = sender]
        to_address ==
            IF tx.action.kind = "Create"
            THEN ZeroAddress
            ELSE tx.action.address
    IN  check_address(g, sender, to_address)

\* as check, a contract creation checked against its sender as destination
check_create_sender(f, tx) ==
    LET sender == tx.sender
        g == [f EXCEPT !.entry = "check", !.tx = tx, !.sender = sender]
    IN  IF tx.gas_price # 0
        THEN return(g, Ok(FALSE))
        ELSE LET to_address ==
                     IF tx.action.kind = "Create"
                     THEN sender
                     ELSE tx.action.address
             IN  check_address(g, sender, to_address)

\* check(client, tx)
check(f, tx) ==
    LET sender == tx.sender
        g == [f EXCEPT !.entry = "check", !.tx = tx, !.sender = sender]
    IN  IF tx.gas_price # 0
        THEN return(g, Ok(FALSE))
        ELSE LET to_address ==
                     IF tx.action.kind = "Create"
                     THEN ZeroAddress
                     ELSE tx.action.address
             IN  check_address(g, sender, to_address)

----------------------------------------------------------------------------
(* Actions *)

Check ==
    /\ frame.pc = "idle"
    /\ \E tx \in Transactions : frame' = check(frame, tx)
    /\ UNCHANGED <<chain, last, memo, peer>>

CheckAddress ==
    /\ frame.pc = "idle"
    /\ \E sender \in Senders, to \in Address :
           frame' = check_address([frame EXCEPT !.entry = "check_address"], sender, to)
    /\ UNCHANGED <<chain, last, memo, peer>>

CertifierRegistry ==
    /\ frame.pc = "certifier_registry"
    /\ frame' = check_certified_address_registry(frame, chain)
    /\ UNCHANGED <<chain, last, memo, peer>>

Certified ==
    /\ frame.pc = "certified"
    /\ frame' = check_certified_address_call(frame, chain)
    /\ UNCHANGED <<chain, last, memo, peer>>

WhitelistRegistry ==
    /\ frame.pc = "whitelist_registry"
    /\ frame' = check_whitelist_address_registry(frame, chain)
    /\ UNCHANGED <<chain, last, memo, peer>>

Activated ==
    /\ frame.pc = "activated"
    /\ frame' = check_whitelist_active(frame, chain)
    /\ UNCHANGED <<chain, last, memo, peer>>

\* as Whitelisted, whitelisted(to) sent as a transaction that adds the destination
WhitelistedTransacted ==
    /\ frame.pc = "whitelisted"
    /\ frame' = check_whitelist_address_presence(frame, chain)
    /\ chain' = [chain EXCEPT !.whitelisted = @ \cup {frame.to}]
    /\ UNCHANGED <<last, memo, peer>>

Whitelisted ==
    /\ frame.pc = "whitelisted"
    /\ frame' = check_whitelist_address_presence(frame, chain)
    /\ UNCHANGED <<chain, last, memo, peer>>

\* the certifier address the invocation resolved, if it resolved one
Resolved(f) == IF f.trace = <<>> THEN None ELSE f.trace[1].found

\* the result goes to the caller and the frame is dropped
Return ==
    /\ frame.pc = "done"
    /\ frame' = IdleFrame
    /\ last' = [valid |-> TRUE, changed |-> FALSE, contract_address |-> Resolved(frame)]
    /\ UNCHANGED <<chain, memo, peer>>

\* the same, an observer keeping the invocation and its result or the one it holds
Remember ==
    /\ frame.pc = "done"
    /\ frame' = IdleFrame
    /\ \/ memo' = [valid |-> TRUE, entry |-> frame.entry, tx |-> frame.tx,
                   sender |-> frame.sender, to |-> frame.to,
                   result |-> frame.result]
       \/ memo.valid /\ memo' = memo
    /\ UNCHANGED <<chain, last, peer>>

\* the same, nothing kept of the invocation
Drop ==
    /\ frame.pc = "done"
    /\ frame' = IdleFrame
    /\ UNCHANGED <<chain, last, memo, peer>>

(* A second caller: the checker is shared by reference, &self, and each call
   of check_address has its own locals *)

\* the query the invocation f is at, made on c
step(f, c) ==
    CASE f.pc = "certifier_registry" -> check_certified_address_registry(f, c)
      [] f.pc = "certified" -> check_certified_address_call(f, c)
      [] f.pc = "whitelist_registry" -> check_whitelist_address_registry(f, c)
      [] f.pc = "activated" -> check_whitelist_active(f, c)
      [] f.pc = "whitelisted" -> check_whitelist_address_presence(f, c)

PeerCheckAddress ==
    /\ peer.pc = "idle"
    /\ \E sender \in Senders, to \in Address :
           peer' = check_address([peer EXCEPT !.entry = "check_address"], sender, to)
    /\ UNCHANGED <<chain, frame, last, memo>>

PeerStep ==
    /\ peer.pc \notin {"idle", "done"}
    /\ peer' = step(peer, chain)
    /\ UNCHANGED <<chain, frame, last, memo>>

PeerReturn ==
    /\ peer.pc = "done"
    /\ peer' = IdleFrame
    /\ UNCHANGED <<chain, frame, last, memo>>

(* The chain moves on between invocations: a new latest block *)

Moved == [last EXCEPT !.changed = last.valid]

SetRegistry ==
    /\ frame.pc = "idle"
    /\ \E name \in RegistryNames,
          found \in {None} \cup {Some(a) : a \in ContractAddress} :
           /\ found # chain.registry[name]
           /\ chain' = [chain EXCEPT !.registry[name] = found]
    /\ last' = Moved
    /\ UNCHANGED <<frame, memo, peer>>

SetCertified ==
    /\ frame.pc = "idle"
    /\ \E a \in Senders :
           chain' = [chain EXCEPT !.certified =
                        IF a \in @ THEN @ \ {a} ELSE @ \cup {a}]
    /\ last' = Moved
    /\ UNCHANGED <<frame, memo, peer>>

SetActivated ==
    /\ frame.pc = "idle"
    /\ chain' = [chain EXCEPT !.activated = ~@]
    /\ last' = Moved
    /\ UNCHANGED <<frame, memo, peer>>

SetWhitelisted ==
    /\ frame.pc = "idle"
    /\ \E a \in Address :
           chain' = [chain EXCEPT !.whitelisted =
                        IF a \in @ THEN @ \ {a} ELSE @ \cup {a}]
    /\ last' = Moved
    /\ UNCHANGED <<frame, memo, peer>>

SetFault ==
    /\ frame.pc = "idle"
    /\ \E fault \in Faults :
           /\ fault # chain.fault
           /\ chain' = [chain EXCEPT !.fault = fault]
    /\ last' = Moved
    /\ UNCHANGED <<frame, memo, peer>>

Init ==
    /\ chain \in Chains
    /\ frame = IdleFrame
    /\ last = NoLast
    /\ memo = NoMemo
    /\ peer = IdleFrame

\* a step of the invocation in progress
Step ==
    \/ CertifierRegistry
    \/ Certified
    \/ WhitelistRegistry
    \/ Activated
    \/ Whitelisted

Next ==
    \/ Check
    \/ CheckAddress
    \/ Step
    \/ Return
    \/ SetRegistry
    \/ SetCertified
    \/ SetActivated
    \/ SetWhitelisted
    \/ SetFault

\* invocations one after the other, the chain moving on in between
Spec == Init /\ [][Next]_vars

NextSnapshot ==
    \/ Check
    \/ CheckAddress
    \/ Step
    \/ Remember

\* invocations one after the other on one snapshot of the chain
SpecSnapshot == Init /\ [][NextSnapshot]_vars

NextConcurrent ==
    \/ CheckAddress
    \/ Step
    \/ Drop
    \/ PeerCheckAddress
    \/ PeerStep
    \/ PeerReturn

\* two callers of check_address on one snapshot of the chain, their queries
\* in any order
SpecConcurrent == Init /\ [][NextConcurrent]_vars

NextLive ==
    \/ Check
    \/ CheckAddress
    \/ Step
    \/ Drop

\* invocations on one snapshot of the chain, every query issued returning:
\* the calls of the client are synchronous, and a step that is enabled stays
\* enabled until it is taken
SpecLive == Init /\ [][NextLive]_vars /\ WF_vars(Step)

----------------------------------------------------------------------------
(* What an invocation observed: its queries and their answers *)

Queries(f) == {f.trace[i] : i \in 1..Len(f.trace)}

IsRegistry(q, name) == q.op = "registry_address" /\ q.name = name
IsCall(q, fn) == q.op = "call_contract" /\ q.data.fn = fn

\* the call went through and returned the word of the boolean b
Returned(q, b) == q.ret.ok /\ q.ret.val = BoolWord(b)
\* the invocation failed
Failed(q) == ~q.ret.ok
\* the call went through and returned bytes that are no boolean
Undecodable(q) == q.ret.ok /\ q.ret.val \in BadBytes

\* the queries of the whitelist path
WhitelistQueries(f) ==
    {q \in Queries(f) :
        \/ IsRegistry(q, SERVICE_CERTIFIED_WHITESLIT_CONTRACT_REGISTRY_NAME)
        \/ IsCall(q, "activated")
        \/ IsCall(q, "whitelisted")}

\* the certifier check returned true, false
CertifierTrue(f) == \E q \in Queries(f) : IsCall(q, "certified") /\ Returned(q, TRUE)
CertifierFalse(f) == \E q \in Queries(f) : IsCall(q, "certified") /\ Returned(q, FALSE)

\* the errors the certifier check met
CertifierErrors(f) ==
    {NOT_CONFIGURED : q \in
        {r \in Queries(f) :
            /\ IsRegistry(r, SERVICE_TRANSACTION_CONTRACT_REGISTRY_NAME)
            /\ r.found = None}}
    \cup {q.ret.err : q \in {r \in Queries(f) : IsCall(r, "certified") /\ Failed(r)}}
    \cup {INVALID_DATA : q \in {r \in Queries(f) : IsCall(r, "certified") /\ Undecodable(r)}}

WhitelistAbsent(f) ==
    \E q \in Queries(f) :
        /\ IsRegistry(q, SERVICE_CERTIFIED_WHITESLIT_CONTRACT_REGISTRY_NAME)
        /\ q.found = None

WhitelistConfigured(f) ==
    \E q \in Queries(f) :
        /\ IsRegistry(q, SERVICE_CERTIFIED_WHITESLIT_CONTRACT_REGISTRY_NAME)
        /\ q.found # None

\* the whitelist check failed: entry absent, or activated() or whitelisted()
\* failed to be invoked or to decode
WhitelistFailure(f) ==
    \/ WhitelistAbsent(f)
    \/ \E q \in Queries(f) :
           /\ IsCall(q, "activated") \/ IsCall(q, "whitelisted")
           /\ Failed(q) \/ Undecodable(q)

Done == frame.pc = "done"

----------------------------------------------------------------------------
(* C1 *)

\* C1: when the certifier check returned true and the whitelist check failed
\* (registry entry absent, activated() or whitelisted() failing to be invoked
\* or to decode), check_address returns Ok(true), never an error.
C1_WhitelistFailOpen ==
    (Done /\ CertifierTrue(frame) /\ WhitelistFailure(frame))
        => frame.result = Ok(TRUE)

\* a certified sender, an active whitelist, and whitelisted() failing to be invoked
C1_Witness ==
    /\ Done
    /\ CertifierTrue(frame)
    /\ \E q \in Queries(frame) : IsCall(q, "whitelisted") /\ Failed(q)
    /\ frame.result = Ok(TRUE)

----------------------------------------------------------------------------
(* C2 *)

\* C2: when the certifier check errors (registry entry absent, certified()
\* failing to be invoked or to decode), check_address returns an error, the
\* very error the certifier check met, and issues no whitelist query at all.
C2_CertifierFailClosed ==
    (Done /\ CertifierErrors(frame) # {})
        => /\ ~frame.result.ok
           /\ CertifierErrors(frame) = {frame.result.err}
           /\ WhitelistQueries(frame) = {}

\* certified() failed to be invoked, on a chain whose whitelist would allow
C2_Witness ==
    /\ Done
    /\ \E q \in Queries(frame) : IsCall(q, "certified") /\ Failed(q)
    /\ frame.result = Err(CALL_FAILED)
    /\ chain.registry[SERVICE_CERTIFIED_WHITESLIT_CONTRACT_REGISTRY_NAME]
           = Some(WhitelistContract)
    /\ chain.activated
    /\ frame.to \in chain.whitelisted

----------------------------------------------------------------------------
(* C3 *)

----------------------------------------------------------------------------
(* C4 *)

\* C4: a transaction with a non-zero gas price makes check return Ok(false)
\* at once, whatever the sender, the action and the chain: no registry lookup
\* and no contract call is issued for it.
C4_NonZeroGasPrice ==
    (frame.entry = "check" /\ frame.tx.gas_price # 0)
        => /\ Done
           /\ frame.result = Ok(FALSE)
           /\ frame.trace = <<>>

\* a priced transaction of a certified sender to a whitelisted destination
C4_Witness ==
    /\ Done
    /\ frame.entry = "check"
    /\ frame.tx.gas_price # 0
    /\ frame.tx.action.kind = "Call"
    /\ chain.registry[SERVICE_TRANSACTION_CONTRACT_REGISTRY_NAME]
           = Some(CertifierContract)
    /\ frame.tx.sender \in chain.certified
    /\ chain.registry[SERVICE_CERTIFIED_WHITESLIT_CONTRACT_REGISTRY_NAME]
           = Some(WhitelistContract)
    /\ chain.activated
    /\ frame.tx.action.address \in chain.whitelisted
    /\ chain.fault = NoFault

----------------------------------------------------------------------------
(* C5 *)

\* C5: when the certifier check returned false, check_address returns
\* Ok(false) and issues no whitelist query, whatever the whitelist contract holds.
C5_NotCertified ==
    (Done /\ CertifierFalse(frame))
        => /\ frame.result = Ok(FALSE)
           /\ WhitelistQueries(frame) = {}

\* a sender that is not certified, a destination the active whitelist holds
C5_Witness ==
    /\ Done
    /\ CertifierFalse(frame)
    /\ chain.registry[SERVICE_CERTIFIED_WHITESLIT_CONTRACT_REGISTRY_NAME]
           = Some(WhitelistContract)
    /\ chain.activated
    /\ frame.to \in chain.whitelisted
    /\ chain.fault = NoFault

----------------------------------------------------------------------------
(* C6 *)

\* the whitelist is configured and active, and whitelisted(to) returned b
WhitelistAnswered(f, b) ==
    /\ WhitelistConfigured(f)
    /\ \E q \in Queries(f) : IsCall(q, "activated") /\ Returned(q, TRUE)
    /\ \E q \in Queries(f) :
           /\ IsCall(q, "whitelisted")
           /\ q.data.args = <<f.to>>
           /\ Returned(q, b)

\* C6: when the certifier check returned true and the whitelist is configured
\* and active, check_address returns the boolean whitelisted(destination)
\* decoded to: Ok(true) for true, Ok(false) for false.
C6_WhitelistDecides ==
    \A b \in BOOLEAN :
        (Done /\ CertifierTrue(frame) /\ WhitelistAnswered(frame, b))
            => frame.result = Ok(b)

\* a certified sender refused: the active whitelist does not hold the destination
C6_Witness ==
    /\ Done
    /\ CertifierTrue(frame)
    /\ WhitelistAnswered(frame, FALSE)
    /\ frame.result = Ok(FALSE)

----------------------------------------------------------------------------
(* What the chain answers, whether asked or not *)

\* the answer of a boolean function of the contract at address
Answer(address, data) ==
    LET value == call_contract(chain, Latest, address, data)
    IN  IF value.ok /\ value.val = BoolWord(TRUE) THEN "true"
        ELSE IF value.ok /\ value.val = BoolWord(FALSE) THEN "false"
        ELSE "error"

\* the certifier check: "absent", "error", "false" or "true"
CertifierOutcome(sender) ==
    LET found == registry_address(chain, SERVICE_TRANSACTION_CONTRACT_REGISTRY_NAME, Latest)
    IN  IF found = None THEN "absent"
        ELSE Answer(found[1], certified_call(sender))

\* the whitelist check: "absent", "error" (of activated() or, the whitelist
\* being active, of whitelisted()), "false" (inactive, or active and not
\* holding the destination) or "true"
WhitelistOutcome(to) ==
    LET found == registry_address(chain, SERVICE_CERTIFIED_WHITESLIT_CONTRACT_REGISTRY_NAME, Latest)
    IN  IF found = None THEN "absent"
        ELSE IF Answer(found[1], activated_call) # "true"
             THEN Answer(found[1], activated_call)
             ELSE Answer(found[1], whitelisted_call(to))

\* certified AND (whitelist absent/erroring OR whitelist explicitly true)
Reference(sender, to) ==
    /\ CertifierOutcome(sender) = "true"
    /\ WhitelistOutcome(to) \in {"absent", "error", "true"}

\* check_address was entered: by a caller, or by check for a zero gas price
Entered(f) ==
    \/ f.entry = "check_address"
    \/ f.entry = "check" /\ f.tx.gas_price = 0

----------------------------------------------------------------------------
(* C7 *)

\* C7: whatever the five queries answer, when the certifier check does not
\* error the boolean check_address returns is: certified AND (the whitelist
\* check absent or erroring OR the whitelist check returning true).
C7_ReferencePredicate ==
    (/\ Done
     /\ Entered(frame)
     /\ CertifierOutcome(frame.sender) \in {"true", "false"})
        => frame.result = Ok(Reference(frame.sender, frame.to))

\* a certified sender and a whitelist that answers false for being inactive
C7_Witness ==
    /\ Done
    /\ Entered(frame)
    /\ CertifierOutcome(frame.sender) = "true"
    /\ WhitelistOutcome(frame.to) = "false"
    /\ ~chain.activated
    /\ frame.to \in chain.whitelisted
    /\ frame.result = Ok(FALSE)

----------------------------------------------------------------------------
(* C8 *)

\* the invocation in progress has the entry point and the arguments of the remembered one
SameInputs ==
    /\ memo.valid
    /\ frame.entry = memo.entry
    /\ frame.tx = memo.tx
    /\ frame.sender = memo.sender
    /\ frame.to = memo.to

\* C8: on one snapshot of the chain, an invocation of check or check_address
\* returns what any earlier invocation with the same arguments returned,
\* whatever invocations took place in between.
C8_SameResult ==
    (Done /\ SameInputs) => frame.result = memo.result

\* check_address run again for a pair it refused, and refusing it again
C8_Witness ==
    /\ Done
    /\ SameInputs
    /\ frame.entry = "check_address"
    /\ CertifierTrue(frame)
    /\ frame.result = Ok(FALSE)
    /\ memo.result = Ok(FALSE)

----------------------------------------------------------------------------
(* C9 *)

\* the error the certifier check ends with on the current chain
CertifierError(sender) ==
    LET found == registry_address(chain, SERVICE_TRANSACTION_CONTRACT_REGISTRY_NAME, Latest)
    IN  IF found = None THEN NOT_CONFIGURED
        ELSE LET value == call_contract(chain, Latest, found[1], certified_call(sender))
             IN  IF ~value.ok THEN value.err ELSE INVALID_DATA

\* the result the current chain alone determines for check_address(sender, to)
Expected(sender, to) ==
    IF CertifierOutcome(sender) \in {"absent", "error"}
    THEN Err(CertifierError(sender))
    ELSE Ok(Reference(sender, to))

\* every answer the invocation got is the current chain's answer to a query
\* made at the latest block, and every call went to the address registered now
Fresh(f) ==
    \A q \in Queries(f) :
        /\ q.block = Latest
        /\ q.op = "registry_address" => q.found = chain.registry[q.name]
        /\ q.op = "call_contract" =>
               /\ q.ret = call_contract(chain, Latest, q.address, q.data)
               /\ Some(q.address) =
                      chain.registry[IF q.data.fn = "certified"
                                     THEN SERVICE_TRANSACTION_CONTRACT_REGISTRY_NAME
                                     ELSE SERVICE_CERTIFIED_WHITESLIT_CONTRACT_REGISTRY_NAME]

\* the invocation resolved the certifier name and called certified() if the
\* name is registered, and, the certifier check passing, resolved the
\* whitelist name, called activated() if that name is registered and
\* whitelisted(to) if the whitelist is active
Requeried(f) ==
    /\ \E q \in Queries(f) : IsRegistry(q, SERVICE_TRANSACTION_CONTRACT_REGISTRY_NAME)
    /\ chain.registry[SERVICE_TRANSACTION_CONTRACT_REGISTRY_NAME] # None
           => \E q \in Queries(f) : IsCall(q, "certified")
    /\ CertifierOutcome(f.sender) = "true" =>
           /\ \E q \in Queries(f) :
                  IsRegistry(q, SERVICE_CERTIFIED_WHITESLIT_CONTRACT_REGISTRY_NAME)
           /\ chain.registry[SERVICE_CERTIFIED_WHITESLIT_CONTRACT_REGISTRY_NAME] # None
                  => \E q \in Queries(f) : IsCall(q, "activated")
           /\ (/\ chain.registry[SERVICE_CERTIFIED_WHITESLIT_CONTRACT_REGISTRY_NAME] # None
               /\ chain.fault.fn # "activated"
               /\ chain.activated
               /\ chain.registry[SERVICE_CERTIFIED_WHITESLIT_CONTRACT_REGISTRY_NAME]
                      = Some(WhitelistContract))
                  => \E q \in Queries(f) :
                         IsCall(q, "whitelisted") /\ q.data.args = <<f.to>>

\* C9: nothing is cached across invocations: an invocation that follows a
\* change of the chain resolves the registry names and calls the contracts
\* anew, and its result is the one the chain determines as it then is.
C9_NoCaching ==
    (Done /\ Entered(frame) /\ last.valid /\ last.changed)
        => /\ Requeried(frame)
           /\ Fresh(frame)
           /\ frame.result = Expected(frame.sender, frame.to)

\* the certifier entry, resolved by the last invocation, has since been
\* removed from the registry, and this invocation finds it missing
C9_Witness ==
    /\ Done
    /\ Entered(frame)
    /\ last.valid
    /\ last.changed
    /\ last.contract_address = Some(CertifierContract)
    /\ chain.registry[SERVICE_TRANSACTION_CONTRACT_REGISTRY_NAME] = None
    /\ frame.result = Err(NOT_CONFIGURED)

----------------------------------------------------------------------------
(* C10 *)

\* C10: no step of an invocation of check or check_address, on any path,
\* changes the chain: registry, certification, whitelist activation and
\* whitelist membership are after the step what they were before it.
C10_ReadOnly ==
    [][(frame.pc # "idle" \/ frame'.pc # "idle") => chain' = chain]_vars

\* an invocation that issued all five queries and returned
C10_Witness ==
    /\ Done
    /\ Len(frame.trace) = 5
    /\ \E q \in Queries(frame) : IsCall(q, "whitelisted")
    /\ frame.result.ok

----------------------------------------------------------------------------
(* C11: check with a zero gas price is check_address on the sender and the
   destination *)

\* the destination of a transaction: the zero address for a creation, the
\* call target for a call
Destination(tx) ==
    IF tx.action.kind = "Create" THEN ZeroAddress ELSE tx.action.address

\* a check of a transaction with a zero gas price
ZeroPriced(f) == f.entry = "check" /\ f.tx.gas_price = 0

\* m is a finished check_address on the sender and the destination of tx
Delegate(m, tx) ==
    /\ m.valid
    /\ m.entry = "check_address"
    /\ m.sender = tx.sender
    /\ m.to = Destination(tx)

\* C11: a check of a transaction with a zero gas price runs on the sender and
\* on the destination of the transaction (the zero address for a creation,
\* the call target for a call), asks whitelisted() about that destination
\* only, and returns, error or not, exactly what check_address returned for
\* that sender and destination on the same chain.
C11_CheckIsCheckAddress ==
    (frame.pc # "idle" /\ ZeroPriced(frame)) =>
        /\ frame.sender = frame.tx.sender
        /\ frame.to = Destination(frame.tx)
        /\ \A q \in Queries(frame) :
               IsCall(q, "whitelisted") => q.data.args = <<Destination(frame.tx)>>
        /\ (Done /\ Delegate(memo, frame.tx)) => frame.result = memo.result

\* a creation whose check reached whitelisted() with the zero address, after
\* a check_address on the same sender and the zero address
C11_Witness ==
    /\ Done
    /\ ZeroPriced(frame)
    /\ frame.tx.action.kind = "Create"
    /\ Delegate(memo, frame.tx)
    /\ \E q \in Queries(frame) :
           IsCall(q, "whitelisted") /\ q.data.args = <<ZeroAddress>>
    /\ frame.result = memo.result

\* the same for a call, failing with the error check_address failed with
C11_WitnessCallError ==
    /\ Done
    /\ ZeroPriced(frame)
    /\ frame.tx.action.kind = "Call"
    /\ frame.tx.action.address # ZeroAddress
    /\ Delegate(memo, frame.tx)
    /\ ~frame.result.ok
    /\ frame.result = memo.result

----------------------------------------------------------------------------
(* C12: an absent certifier entry is a configuration error, and nothing is
   called *)

IsAnyCall(q) == q.op = "call_contract"

\* the errors of an invocation or of the decoding of its output
InvocationErrors == {CALL_FAILED, INVALID_DATA}

\* the positions of the trace of f before position i that resolved address
ResolvedBefore(f, i, address) ==
    {j \in 1..(i - 1) :
        f.trace[j].op = "registry_address" /\ f.trace[j].found = Some(address)}

\* C12: a check of a transaction with a zero gas price, creation or call, on
\* a chain whose registry has no entry for the certifier name issues no
\* contract call of any kind (certified, activated or whitelisted) and returns
\* the error of the missing configuration, which is none of the errors of an
\* invocation or of a decoding; every call an invocation issues goes to an
\* address a registry lookup of the same invocation resolved before it.
C12_CertifierNotConfigured ==
    /\ (/\ frame.pc # "idle"
        /\ ZeroPriced(frame)
        /\ chain.registry[SERVICE_TRANSACTION_CONTRACT_REGISTRY_NAME] = None) =>
           /\ \A q \in Queries(frame) : ~IsAnyCall(q)
           /\ Done => /\ frame.result = Err(NOT_CONFIGURED)
                      /\ frame.result.err \notin InvocationErrors
    /\ \A i \in 1..Len(frame.trace) :
           IsAnyCall(frame.trace[i]) =>
               ResolvedBefore(frame, i, frame.trace[i].address) # {}

\* a creation checked on a chain without the certifier entry: the lookup was
\* made and the check ended with the configuration error
C12_Witness ==
    /\ Done
    /\ ZeroPriced(frame)
    /\ frame.tx.action.kind = "Create"
    /\ chain.registry[SERVICE_TRANSACTION_CONTRACT_REGISTRY_NAME] = None
    /\ Len(frame.trace) = 1
    /\ IsRegistry(frame.trace[1], SERVICE_TRANSACTION_CONTRACT_REGISTRY_NAME)
    /\ frame.result = Err(NOT_CONFIGURED)

\* the same for a call
C12_WitnessCall ==
    /\ Done
    /\ ZeroPriced(frame)
    /\ frame.tx.action.kind = "Call"
    /\ chain.registry[SERVICE_TRANSACTION_CONTRACT_REGISTRY_NAME] = None
    /\ frame.result = Err(NOT_CONFIGURED)

----------------------------------------------------------------------------
(* C13: activated() comes before whitelisted() and gates it *)

\* the positions of the trace of f before position i where activated()
\* returned true on the address the whitelist name resolved to before it
ActivatedBefore(f, i) ==
    {j \in 1..(i - 1) :
        /\ IsCall(f.trace[j], "activated")
        /\ Returned(f.trace[j], TRUE)
        /\ \E k \in 1..(j - 1) :
               /\ IsRegistry(f.trace[k], SERVICE_CERTIFIED_WHITESLIT_CONTRACT_REGISTRY_NAME)
               /\ f.trace[k].found # None}

\* activated() was asked and did not return true: it returned false, failed
\* or returned bytes that are no boolean
ActivatedNotTrue(f) ==
    \E q \in Queries(f) : IsCall(q, "activated") /\ ~Returned(q, TRUE)

\* C13: in every invocation whitelisted() is queried only after the whitelist
\* name resolved to an address and activated(), queried before it, returned
\* true; when activated() returned false or failed, whitelisted() is never
\* queried and the invocation has ended.
C13_ActivatedGatesWhitelisted ==
    /\ \A i \in 1..Len(frame.trace) :
           IsCall(frame.trace[i], "whitelisted") => ActivatedBefore(frame, i) # {}
    /\ frame.pc = "whitelisted" => ActivatedBefore(frame, Len(frame.trace) + 1) # {}
    /\ ActivatedNotTrue(frame) =>
           /\ \A q \in Queries(frame) : ~IsCall(q, "whitelisted")
           /\ Done

\* whitelisted() was queried, after activated() returned true
C13_Witness ==
    /\ Len(frame.trace) = 5
    /\ IsCall(frame.trace[4], "activated")
    /\ Returned(frame.trace[4], TRUE)
    /\ IsCall(frame.trace[5], "whitelisted")

\* activated() returned false, and activated() failed: the invocation ended
\* at that query
C13_WitnessInactive ==
    /\ Done
    /\ Len(frame.trace) = 4
    /\ IsCall(frame.trace[4], "activated")
    /\ Returned(frame.trace[4], FALSE)

C13_WitnessFailed ==
    /\ Done
    /\ Len(frame.trace) = 4
    /\ IsCall(frame.trace[4], "activated")
    /\ Failed(frame.trace[4])

----------------------------------------------------------------------------
(* C14: no query is retried *)

\* which of the five queries q is
QueryKind(q) == <<q.op, q.name, q.data.fn>>

FiveQueries ==
    {<<"registry_address", SERVICE_TRANSACTION_CONTRACT_REGISTRY_NAME, "">>,
     <<"call_contract", "", "certified">>,
     <<"registry_address", SERVICE_CERTIFIED_WHITESLIT_CONTRACT_REGISTRY_NAME, "">>,
     <<"call_contract", "", "activated">>,
     <<"call_contract", "", "whitelisted">>}

\* the query failed: the name is not registered, the invocation failed or
\* its output is no boolean
QueryFailed(q) ==
    IF q.op = "registry_address" THEN q.found = None
    ELSE Failed(q) \/ Undecodable(q)

\* the query belongs to the certifier path
OnCertifierPath(q) ==
    \/ IsRegistry(q, SERVICE_TRANSACTION_CONTRACT_REGISTRY_NAME)
    \/ IsCall(q, "certified")

\* C14: in one invocation every query is one of the five and each of the
\* five is issued at most once; a query that failed is the last query of the
\* invocation and the invocation has ended, with an error when the query is
\* on the certifier path and with true when it is on the whitelist path.
C14_NoRetry ==
    /\ \A i \in 1..Len(frame.trace) : QueryKind(frame.trace[i]) \in FiveQueries
    /\ \A i, j \in 1..Len(frame.trace) :
           QueryKind(frame.trace[i]) = QueryKind(frame.trace[j]) => i = j
    /\ \A i \in 1..Len(frame.trace) :
           QueryFailed(frame.trace[i]) =>
               /\ i = Len(frame.trace)
               /\ Done
               /\ IF OnCertifierPath(frame.trace[i])
                  THEN ~frame.result.ok
                  ELSE frame.result = Ok(TRUE)

\* certified() failed: the invocation ended with the error after two queries
C14_Witness ==
    /\ Done
    /\ Len(frame.trace) = 2
    /\ IsCall(frame.trace[2], "certified")
    /\ Failed(frame.trace[2])
    /\ ~frame.result.ok

\* whitelisted() failed: the invocation ended with true after five queries
C14_WitnessWhitelist ==
    /\ Done
    /\ Len(frame.trace) = 5
    /\ IsCall(frame.trace[5], "whitelisted")
    /\ Failed(frame.trace[5])
    /\ frame.result = Ok(TRUE)

----------------------------------------------------------------------------
(* C15: concurrent invocations do not influence one another *)

\* the result of the invocation f run alone on the chain as it is
Alone(f) ==
    IF Entered(f) THEN Expected(f.sender, f.to) ELSE Ok(FALSE)

\* the queries of f and their answers are those of f run alone on the chain
\* as it is: the certifier lookup, then certified(sender) when the name is
\* registered, then, certified, the whitelist lookup, activated() and
\* whitelisted(to), each made once and answered by the chain
AloneTrace(f) ==
    /\ Fresh(f)
    /\ \A i, j \in 1..Len(f.trace) :
           QueryKind(f.trace[i]) = QueryKind(f.trace[j]) => i = j
    /\ \A q \in Queries(f) :
           /\ IsCall(q, "certified") => q.data.args = <<f.sender>>
           /\ IsCall(q, "whitelisted") => q.data.args = <<f.to>>

\* both callers have an invocation in progress or finished
Concurrent == frame.pc # "idle" /\ peer.pc # "idle"

\* C15: on one unchanging chain, whatever the order in which two callers'
\* queries are made, each invocation gets the answers it would get alone and,
\* when it has finished, holds the result it would return alone: the other
\* invocation being idle, in progress or finished makes no difference.
C15_Concurrent ==
    /\ AloneTrace(frame)
    /\ AloneTrace(peer)
    /\ Done => frame.result = Alone(frame)
    /\ peer.pc = "done" => peer.result = Alone(peer)

\* two invocations that ran at the same time on different destinations and
\* ended with different results
C15_Witness ==
    /\ Done
    /\ peer.pc = "done"
    /\ Entered(frame)
    /\ frame.sender = peer.sender
    /\ frame.to # peer.to
    /\ Len(frame.trace) = 5
    /\ Len(peer.trace) = 5
    /\ frame.result # peer.result
    /\ frame.result = Alone(frame)
    /\ peer.result = Alone(peer)

----------------------------------------------------------------------------
(* C16: the latest block and the two fixed names *)

\* the name under which the contract of the function fn is registered
NameOf(fn) ==
    IF fn = "certified"
    THEN "service_transaction_checker"
    ELSE "service_destination_whitelist"

\* C16: every query of an invocation, registry lookup or contract call, is
\* made at the latest block; every lookup is of "service_transaction_checker"
\* or of "service_destination_whitelist"; certified() is called on the address
\* a lookup of "service_transaction_checker" gave and activated() and
\* whitelisted() on the address a lookup of "service_destination_whitelist"
\* gave.
C16_LatestAndFixedNames ==
    \A i \in 1..Len(frame.trace) :
        LET q == frame.trace[i]
        IN  /\ q.block = "Latest"
            /\ q.op = "registry_address" =>
                   q.name \in {"service_transaction_checker",
                               "service_destination_whitelist"}
            /\ q.op = "call_contract" =>
                   \E j \in 1..(i - 1) :
                       /\ frame.trace[j].op = "registry_address"
                       /\ frame.trace[j].block = "Latest"
                       /\ frame.trace[j].name = NameOf(q.data.fn)
                       /\ frame.trace[j].found = Some(q.address)

\* an invocation that made all five queries: both names looked up and the
\* three functions called
C16_Witness ==
    /\ Done
    /\ Len(frame.trace) = 5
    /\ frame.trace[1].name = "service_transaction_checker"
    /\ frame.trace[3].name = "service_destination_whitelist"
    /\ \A i \in {2, 4, 5} : frame.trace[i].op = "call_contract"
    /\ \A i \in 1..5 : frame.trace[i].block = "Latest"

----------------------------------------------------------------------------
(* C17: one resolution of the whitelist name, and each call on its own
   contract with its own argument *)

\* the positions of the trace of f that looked name up
Lookups(f, name) == {i \in 1..Len(f.trace) : IsRegistry(f.trace[i], name)}

\* the addresses the lookups of name in the trace of f resolved to
ResolvedFor(f, name) ==
    {f.trace[i].found[1] : i \in {j \in Lookups(f, name) : f.trace[j].found # None}}

\* C17: in one invocation each registry name is looked up at most once, and
\* the whitelist name exactly once when activated() or whitelisted() is
\* called; activated(), without arguments, and whitelisted(to), with the
\* destination as its argument, are called on the one address the whitelist
\* name resolved to; certified(sender), with the sender as its argument, is
\* called on the address the certifier name resolved to; the names resolving
\* to different addresses, no function is called on the address resolved for
\* the other name.
C17_OwnAddressOwnArgument ==
    LET certifier == ResolvedFor(frame, SERVICE_TRANSACTION_CONTRACT_REGISTRY_NAME)
        whitelist == ResolvedFor(frame, SERVICE_CERTIFIED_WHITESLIT_CONTRACT_REGISTRY_NAME)
    IN  /\ Cardinality(Lookups(frame, SERVICE_TRANSACTION_CONTRACT_REGISTRY_NAME)) <= 1
        /\ Cardinality(Lookups(frame, SERVICE_CERTIFIED_WHITESLIT_CONTRACT_REGISTRY_NAME)) <= 1
        /\ \A q \in Queries(frame) :
               /\ IsCall(q, "certified") =>
                      /\ certifier = {q.address}
                      /\ q.data.args = <<frame.sender>>
                      /\ certifier # whitelist => q.address \notin whitelist
               /\ IsCall(q, "activated") =>
                      /\ Cardinality(Lookups(frame,
                             SERVICE_CERTIFIED_WHITESLIT_CONTRACT_REGISTRY_NAME)) = 1
                      /\ whitelist = {q.address}
                      /\ q.data.args = <<>>
                      /\ certifier # whitelist => q.address \notin certifier
               /\ IsCall(q, "whitelisted") =>
                      /\ Cardinality(Lookups(frame,
                             SERVICE_CERTIFIED_WHITESLIT_CONTRACT_REGISTRY_NAME)) = 1
                      /\ whitelist = {q.address}
                      /\ q.data.args = <<frame.to>>
                      /\ certifier # whitelist => q.address \notin certifier

\* the names resolved to different addresses, certified(sender) called on the
\* first, activated() and whitelisted(to) on the second, the destination not
\* being the sender
C17_Witness ==
    /\ Done
    /\ Len(frame.trace) = 5
    /\ frame.to # frame.sender
    /\ frame.trace[1].found # frame.trace[3].found
    /\ frame.trace[2].address = frame.trace[1].found[1]
    /\ frame.trace[2].data = certified_call(frame.sender)
    /\ frame.trace[4].address = frame.trace[3].found[1]
    /\ frame.trace[5].address = frame.trace[3].found[1]
    /\ frame.trace[5].data = whitelisted_call(frame.to)

\* both names resolved to one address: activated() was called on it
C17_WitnessSameAddress ==
    /\ Done
    /\ Len(frame.trace) = 4
    /\ frame.trace[1].found = frame.trace[3].found
    /\ IsCall(frame.trace[4], "activated")
    /\ frame.trace[4].address = frame.trace[2].address

----------------------------------------------------------------------------
(* C18: every invocation terminates, within two lookups and three calls *)

RegistryLookups(f) == {i \in 1..Len(f.trace) : f.trace[i].op = "registry_address"}
ContractCalls(f) == {i \in 1..Len(f.trace) : f.trace[i].op = "call_contract"}

\* what an invocation can return: a boolean or one of the certifier's errors
Results == {Ok(b) : b \in BOOLEAN} \cup {Err(e) : e \in {NOT_CONFIGURED, CALL_FAILED, INVALID_DATA}}

\* C18: every query returning, an invocation of check or of check_address
\* that has started eventually holds a result, and at no point has it made
\* more than two registry lookups or more than three contract calls.
C18_Terminates ==
    /\ [](/\ Cardinality(RegistryLookups(frame)) <= 2
          /\ Cardinality(ContractCalls(frame)) <= 3
          /\ Done => frame.result \in Results)
    /\ (frame.pc # "idle") ~> Done

\* an invocation that ended after two registry lookups and three contract calls
C18_Witness ==
    /\ Done
    /\ Cardinality(RegistryLookups(frame)) = 2
    /\ Cardinality(ContractCalls(frame)) = 3
    /\ frame.result \in Results

====
